---------------------------- MODULE Spec2Model ----------------------------
(***************************************************************************)
(* The HubSpot proxy of berteloot/Nytro-Live-Dec11_2025.                   *)
(*                                                                         *)
(* The repository holds four versions of the express server:               *)
(*   "simple"  src/server.js 1-232      create, update (search then PATCH) *)
(*   "note"    src/server.js 234-522    ensureContactExists + note         *)
(*   "byid"    src/unnamed/part_000     search, create, update by id       *)
(*   "upsert"  src/unnamed/part_001     create, on 409 PATCH the contact   *)
(* One of them is deployed (variable variant).  Every handler is an async  *)
(* function: it runs up to its next fetch, and each fetch, with the code   *)
(* that consumes its response up to the next fetch or to the response, is  *)
(* one action.  The remote CRM is the environment: it keeps emails unique, *)
(* answers 409 on a duplicate, serves searches from an index that may lag  *)
(* behind the contacts (a search may miss them), and may fail any call.    *)
(* The text it sends with a 409 has one of two formats (BodyStyles); only  *)
(* the "upsert" version reads it (errorText).                              *)
(***************************************************************************)
EXTENDS Integers, Sequences, FiniteSets, TLC

\* ------------------------------------------------------------- bounds
NumReq == 2
FirstId == 9
FirstNoteId == 5
NumFair == 1

Requests == 1..NumReq
Emails == {"a@x.com", "b@nytromarketing.com"}
\* what req.body.email can be: "" stands for every falsy value (absent, "", null)
EmailInputs == Emails \cup {""}
NoteInputs == {"", "hello"}
Variants == {"simple", "note", "byid", "upsert"}

BodyStyles == {"id", "none"}

VARIABLES variant, keySet, contacts, notes, req

vars == <<variant, keySet, contacts, notes, req>>

\* --------------------------------------------------------- identifiers
DigitChar == <<"0", "1", "2", "3", "4", "5", "6", "7", "8", "9">>
Digits == {DigitChar[i] : i \in 1..10}

RECURSIVE ToDigits(_)
\* the decimal string of n, as the remote prints an id
ToDigits(n) ==
  IF n < 10 THEN <<DigitChar[n + 1]>>
  ELSE Append(ToDigits(n \div 10), DigitChar[(n % 10) + 1])

NoId == <<>>

\* ------------------------------------------------- the 409 body and its id
\* tokens of a response text: "w" a word, " " white space, "ID:" and digits
RECURSIVE SkipWs(_, _)
SkipWs(s, i) ==
  IF i <= Len(s) /\ s[i] = " " THEN SkipWs(s, i + 1) ELSE i

RECURSIVE DigitRun(_, _)
DigitRun(s, i) ==
  IF i <= Len(s) /\ s[i] \in Digits THEN <<s[i]>> \o DigitRun(s, i + 1) ELSE <<>>

MatchAt(s, i) ==
  /\ s[i] = "ID:"
  /\ LET j == SkipWs(s, i + 1) IN j <= Len(s) /\ s[j] \in Digits

\* a mutant of ExtractId: the capture is one digit, (\d) for (\d+)
ExtractIdOneDigit(s) ==
  IF \E i \in 1..Len(s) : MatchAt(s, i)
  THEN LET i == CHOOSE k \in 1..Len(s) :
                  MatchAt(s, k) /\ \A m \in 1..(k - 1) : ~MatchAt(s, m)
       IN <<s[SkipWs(s, i + 1)]>>
  ELSE NoId

\* errorText.match(/ID:\s*(\d+)/): group 1 of the leftmost match, or NoId (null)
ExtractId(s) ==
  IF \E i \in 1..Len(s) : MatchAt(s, i)
  THEN LET i == CHOOSE k \in 1..Len(s) :
                  MatchAt(s, k) /\ \A m \in 1..(k - 1) : ~MatchAt(s, m)
       IN DigitRun(s, SkipWs(s, i + 1))
  ELSE NoId

\* the text the remote sends with a 409 about the existing contact id:
\*   "id"    "ID: w ID: 10 w"   a first ID: without digits, then the id
\*   "none"  "w ID: w"          no digits after ID:, nothing to extract
ConflictBody(style, id) ==
  IF style = "id" THEN <<"ID:", " ", "w", " ", "ID:", " ">> \o id \o <<" ", "w">>
  ELSE <<"w", " ", "ID:", " ", "w">>

\* ------------------------------------------------------- the remote CRM
ContactIds == {contacts[i].id : i \in 1..Len(contacts)}
HasEmail(e) == \E i \in 1..Len(contacts) : contacts[i].email = e
ContactOf(e) == contacts[CHOOSE i \in 1..Len(contacts) : contacts[i].email = e]
ContactsWith(e) == {i \in 1..Len(contacts) : contacts[i].email = e}
NewContactId == ToDigits(FirstId + Len(contacts))
NewNoteId == ToDigits(FirstNoteId + Len(notes))

RECURSIVE Matching(_, _)
\* the contacts whose email is e, in order
Matching(e, i) ==
  IF i > Len(contacts) THEN <<>>
  ELSE (IF contacts[i].email = e THEN <<contacts[i]>> ELSE <<>>) \o Matching(e, i + 1)

\* POST /contacts/search, filter email EQ e: the results of an "ok" answer are
\* the matching contacts, or none of them when the index is "stale"
SearchResults(o, e) == IF o.kind = "ok" /\ ~o.stale THEN Matching(e, 1) ELSE <<>>

\* outcomes of a fetch, as the handler sees them:
\*   "ok"      a 2xx answer with a readable body
\*   "status"  a non-2xx answer; the call had no effect
\*   "thrown"  fetch or response.json() rejects; a create, PATCH or note call
\*             had taken effect (the answer was lost or unreadable)
Conflict == 409

CreateOutcomes(e) ==
  IF HasEmail(e)
  THEN {[kind |-> "status", status |-> Conflict], [kind |-> "status", status |-> 500]}
  ELSE {[kind |-> "ok", status |-> 201], [kind |-> "thrown", status |-> 0],
        [kind |-> "status", status |-> 500]}

\* the text of the 409 answered to a create for email e, in format style
ConflictText(style, e) == ConflictBody(style, ContactOf(e).id)

Effect(o) == o.kind \in {"ok", "thrown"}

ContactsAfterCreate(o, e, t) ==
  IF Effect(o)
  THEN Append(contacts, [id |-> NewContactId, email |-> e, text |-> t, old |-> FALSE])
  ELSE contacts

SearchOutcomes ==
  {[kind |-> "ok", status |-> 200, stale |-> FALSE],
   [kind |-> "ok", status |-> 200, stale |-> TRUE],
   [kind |-> "thrown", status |-> 0, stale |-> FALSE],
   [kind |-> "status", status |-> 500, stale |-> FALSE]}

\* GET /contacts/{id}
GetOutcomes(id) ==
  IF id \in ContactIds
  THEN {[kind |-> "ok", status |-> 200], [kind |-> "thrown", status |-> 0],
        [kind |-> "status", status |-> 500]}
  ELSE {[kind |-> "status", status |-> 404]}

\* PATCH /contacts/{id}.  A body {properties: {properties: {...}}} (wrapped)
\* names a property the remote does not have: it answers 400, or ignores it
PatchOutcomes(id, wrapped) ==
  IF id \in ContactIds
  THEN {[kind |-> "ok", status |-> 200], [kind |-> "thrown", status |-> 0],
        [kind |-> "status", status |-> 500]}
       \cup (IF wrapped THEN {[kind |-> "status", status |-> 400]} ELSE {})
  ELSE {[kind |-> "status", status |-> 404]}

ContactsAfterPatch(o, id, t, wrapped) ==
  IF Effect(o) /\ ~wrapped
  THEN [i \in 1..Len(contacts) |->
          IF contacts[i].id = id THEN [contacts[i] EXCEPT !.text = t] ELSE contacts[i]]
  ELSE contacts

NoteOutcomes(id) ==
  IF id \in ContactIds
  THEN {[kind |-> "ok", status |-> 201], [kind |-> "thrown", status |-> 0],
        [kind |-> "status", status |-> 500]}
  ELSE {[kind |-> "status", status |-> 400]}

\* ---------------------------------------------------------- a request
\* pc is the fetch the handler is suspended at; calls is the list of the remote
\* calls it has issued; resp the responses it has sent.  hits is the number of
\* results its search answered (-1: no search answer read).  after is history,
\* kept for the create-contact requests of the note version: the requests
\* answered with success before this one arrived.
IdleReq ==
  [ep |-> "none", email |-> "", notes |-> "", pc |-> "idle",
   createStatus |-> 0, hits |-> -1, contactId |-> NoId, action |-> "none",
   errorText |-> <<>>, calls |-> <<>>, resp |-> <<>>, after |-> {}]

Call(kind, email, id, text, wrapped) ==
  [kind |-> kind, email |-> email, id |-> id, text |-> text, wrapped |-> wrapped]

\* process.env.HUBSPOT_API_KEY, when it is set (keySet)
HUBSPOT_API_KEY == "pat-secret"

\* the header of every fetch: 'Authorization': `Bearer ${HUBSPOT_API_KEY}`
Authorization == <<"Bearer", HUBSPOT_API_KEY>>

\* the call joins the log with its header and what the remote answered to it
Logged(rq, call, o) ==
  [rq EXCEPT !.calls = Append(@, [kind |-> call.kind, email |-> call.email,
                                   id |-> call.id, text |-> call.text,
                                   wrapped |-> call.wrapped,
                                   auth |-> Authorization,
                                   answer |-> o.kind, status |-> o.status])]

\* the search fetch, filter email EQ rq.email, and what it answered
Searched(rq, o, results) ==
  [Logged(rq, Call("search", rq.email, NoId, "", FALSE), o)
     EXCEPT !.hits = IF o.kind = "ok" THEN Len(results) ELSE -1]

Respond(rq, response) == [rq EXCEPT !.pc = "done", !.resp = Append(@, response)]

\* res.status(s).json({ error, details })
ErrorResponse(s, error, msg, dstatus, dtext) ==
  [status |-> s, error |-> error, contactId |-> NoId, noteId |-> NoId,
   action |-> "none", msg |-> msg, dstatus |-> dstatus, dtext |-> dtext]

\* res.json({...}): status 200
OkResponse(contactId, noteId, action) ==
  [status |-> 200, error |-> "none", contactId |-> contactId, noteId |-> noteId,
   action |-> action, msg |-> "none", dstatus |-> 0, dtext |-> <<>>]

\* the message of what fetch or response.json() throws
Thrown == "fetch or json failed"

Answered(rq) == rq.pc = "done"
Succeeded(rq) == rq.pc = "done" /\ Len(rq.resp) > 0 /\ rq.resp[Len(rq.resp)].status = 200

CallsOf(rq, kind) == {i \in 1..Len(rq.calls) : rq.calls[i].kind = kind}

\* a mutant of Gate: the email is not checked
GateNoEmailCheck(rq, ep, e, n, next) ==
  LET base == [rq EXCEPT !.ep = ep, !.email = e, !.notes = n] IN
  IF ~keySet
  THEN Respond(base, ErrorResponse(500, "HubSpot API key not configured", "none", 0, <<>>))
  ELSE [base EXCEPT !.pc = next]

\* a mutant of Gate: the key is checked before the email
GateKeyFirst(rq, ep, e, n, next) ==
  LET base == [rq EXCEPT !.ep = ep, !.email = e, !.notes = n] IN
  IF ~keySet
  THEN Respond(base, ErrorResponse(500, "HubSpot API key not configured", "none", 0, <<>>))
  ELSE IF e = ""
  THEN Respond(base, ErrorResponse(400, "Email is required", "none", 0, <<>>))
  ELSE [base EXCEPT !.pc = next]

\* the two checks every handler that takes an email starts with
Gate(rq, ep, e, n, next) ==
  LET base == [rq EXCEPT !.ep = ep, !.email = e, !.notes = n] IN
  IF e = ""
  THEN Respond(base, ErrorResponse(400, "Email is required", "none", 0, <<>>))
  ELSE IF ~keySet
  THEN Respond(base, ErrorResponse(500, "HubSpot API key not configured", "none", 0, <<>>))
  ELSE [base EXCEPT !.pc = next]

\* requests are numbered in the order they arrive
Arrives(r) == req[r].pc = "idle" /\ (IF r = 1 THEN TRUE ELSE req[r - 1].pc # "idle")

\* the history field, set when a create-contact request of the note version
\* arrives
Stamp(rq) == [rq EXCEPT !.after = {q \in Requests : Succeeded(req[q])}]

\* ------------------------------ GET /api/config, /api/health, /api/debug
\* the same three handlers in every version; none issues a remote call
ALLOWED_DOMAIN == "nytromarketing.com"

ConfigResponse ==
  [status |-> 200, error |-> "none", contactId |-> NoId, noteId |-> NoId,
   action |-> "none", msg |-> "ALLOWED_DOMAIN: " \o ALLOWED_DOMAIN,
   dstatus |-> 0, dtext |-> <<>>]

\* a mutant of HealthResponse: hubspotConfigured: HUBSPOT_API_KEY, without !!
HealthResponseKey ==
  [status |-> 200, error |-> "none", contactId |-> NoId, noteId |-> NoId,
   action |-> "none",
   msg |-> IF keySet THEN HUBSPOT_API_KEY ELSE "hubspotConfigured: false",
   dstatus |-> 0, dtext |-> <<>>]

\* hubspotConfigured: !!HUBSPOT_API_KEY, in /api/health and in /api/debug
HealthResponse ==
  [status |-> 200, error |-> "none", contactId |-> NoId, noteId |-> NoId,
   action |-> "none",
   msg |-> IF keySet THEN "hubspotConfigured: true" ELSE "hubspotConfigured: false",
   dstatus |-> 0, dtext |-> <<>>]

GetConfig(r) ==
  /\ Arrives(r)
  /\ req' = [req EXCEPT ![r] = Respond([req[r] EXCEPT !.ep = "config"],
                                       ConfigResponse)]
  /\ UNCHANGED <<variant, keySet, contacts, notes>>

GetHealth(r) ==
  /\ Arrives(r)
  /\ \E ep \in {"health", "debug"} :
       req' = [req EXCEPT ![r] = Respond([req[r] EXCEPT !.ep = ep], HealthResponse)]
  /\ UNCHANGED <<variant, keySet, contacts, notes>>

\* ------------------------------------------ "note": src/server.js 234-522
Fallback == "Live December 11, 2025"
\* a mutant of NoteContent: the notes of the body are sent as they are
NoteContentRaw(n) == n

\* notes || 'Live December 11, 2025'
NoteContent(n) == IF n = "" THEN Fallback ELSE n

CatchLabel(ep) ==
  IF ep = "create" THEN "Failed to create contact and note"
  ELSE "Failed to update contact"

HandlerCatch(rq, msg, dstatus, dtext) ==
  Respond(rq, ErrorResponse(500, CatchLabel(rq.ep), msg, dstatus, dtext))

NoteCreateContact(r) ==
  /\ variant = "note"
  /\ Arrives(r)
  /\ \E e \in EmailInputs, n \in NoteInputs :
       req' = [req EXCEPT ![r] = Stamp(Gate(req[r], "create", e, n, "ensure_create"))]
  /\ UNCHANGED <<variant, keySet, contacts, notes>>

NoteUpdateContact(r) ==
  /\ variant = "note"
  /\ Arrives(r)
  /\ \E e \in EmailInputs, n \in NoteInputs :
       req' = [req EXCEPT ![r] = Gate(req[r], "update", e, n, "ensure_create")]
  /\ UNCHANGED <<variant, keySet, contacts, notes>>

\* mutants of EnsureAfterCreate
\* every non-2xx answer is taken for a conflict
EnsureAfterCreateAnyError(rq, o, id) ==
  LET l == Logged(rq, Call("create", rq.email, NoId, "", FALSE), o) IN
  IF o.kind = "ok"
  THEN [l EXCEPT !.createStatus = o.status, !.contactId = id,
                 !.action = "created", !.pc = "note"]
  ELSE IF o.kind = "status"
  THEN [l EXCEPT !.createStatus = o.status, !.pc = "ensure_search"]
  ELSE HandlerCatch(l, Thrown, 0, <<>>)

\* a failed create is logged and swallowed: the note is attached all the same
EnsureAfterCreateSwallow(rq, o, id) ==
  LET l == Logged(rq, Call("create", rq.email, NoId, "", FALSE), o) IN
  IF o.kind = "ok"
  THEN [l EXCEPT !.createStatus = o.status, !.contactId = id,
                 !.action = "created", !.pc = "note"]
  ELSE IF o.kind = "status" /\ o.status = Conflict
  THEN [l EXCEPT !.createStatus = o.status, !.pc = "ensure_search"]
  ELSE IF o.kind = "status"
  THEN [l EXCEPT !.createStatus = o.status, !.pc = "note"]
  ELSE HandlerCatch(l, Thrown, 0, <<>>)

\* a 409 is taken for an accepted create: its body holds no id, and the
\* contact counts as created
EnsureAfterCreateConflictAccepted(rq, o, id) ==
  LET l == Logged(rq, Call("create", rq.email, NoId, "", FALSE), o) IN
  IF o.kind = "ok"
  THEN [l EXCEPT !.createStatus = o.status, !.contactId = id,
                 !.action = "created", !.pc = "note"]
  ELSE IF o.kind = "status" /\ o.status = Conflict
  THEN [l EXCEPT !.createStatus = o.status, !.contactId = NoId,
                 !.action = "created", !.pc = "note"]
  ELSE IF o.kind = "status"
  THEN HandlerCatch([l EXCEPT !.createStatus = o.status],
                    "Failed to ensure contact exists", o.status, <<>>)
  ELSE HandlerCatch(l, Thrown, 0, <<>>)

\* ensureContactExists after the create fetch
EnsureAfterCreate(rq, o, id) ==
  LET l == Logged(rq, Call("create", rq.email, NoId, "", FALSE), o) IN
  IF o.kind = "ok"
  THEN [l EXCEPT !.createStatus = o.status, !.contactId = id,
                 !.action = "created", !.pc = "note"]
  ELSE IF o.kind = "status" /\ o.status = Conflict
  THEN [l EXCEPT !.createStatus = o.status, !.pc = "ensure_search"]
  ELSE IF o.kind = "status"
  THEN HandlerCatch([l EXCEPT !.createStatus = o.status],
                    "Failed to ensure contact exists", o.status, <<>>)
  ELSE HandlerCatch(l, Thrown, 0, <<>>)

EnsureCreate(r) ==
  /\ variant = "note"
  /\ req[r].pc = "ensure_create"
  /\ \E o \in CreateOutcomes(req[r].email) :
       /\ contacts' = ContactsAfterCreate(o, req[r].email, "")
       /\ req' = [req EXCEPT ![r] = EnsureAfterCreate(req[r], o, NewContactId)]
  /\ UNCHANGED <<variant, keySet, notes>>

\* mutants of EnsureAfterSearch
\* the found contact is reported as created
EnsureAfterSearchCreated(rq, o, results) ==
  LET l == Searched(rq, o, results) IN
  IF o.kind = "ok" /\ Len(results) > 0
  THEN [l EXCEPT !.contactId = results[1].id, !.action = "created", !.pc = "note"]
  ELSE IF o.kind \in {"ok", "status"}
  THEN HandlerCatch(l, "Failed to ensure contact exists", rq.createStatus, <<>>)
  ELSE HandlerCatch(l, Thrown, 0, <<>>)

\* no check of results.length: an empty result gives an undefined id
EnsureAfterSearchLenient(rq, o, results) ==
  LET l == Searched(rq, o, results) IN
  IF o.kind = "ok"
  THEN [l EXCEPT !.contactId = IF Len(results) > 0 THEN results[1].id ELSE NoId,
                 !.action = "found", !.pc = "note"]
  ELSE IF o.kind = "status"
  THEN HandlerCatch(l, "Failed to ensure contact exists", rq.createStatus, <<>>)
  ELSE HandlerCatch(l, Thrown, 0, <<>>)

\* a failed search is tried again
EnsureAfterSearchRetry(rq, o, results) ==
  LET l == Searched(rq, o, results) IN
  IF o.kind = "ok" /\ Len(results) > 0
  THEN [l EXCEPT !.contactId = results[1].id, !.action = "found", !.pc = "note"]
  ELSE IF o.kind = "status"
  THEN l
  ELSE IF o.kind = "ok"
  THEN HandlerCatch(l, "Failed to ensure contact exists", rq.createStatus, <<>>)
  ELSE HandlerCatch(l, Thrown, 0, <<>>)

\* a contact that was found has its note already: the request is answered
\* without a note call
EnsureAfterSearchNoNote(rq, o, results) ==
  LET l == Searched(rq, o, results) IN
  IF o.kind = "ok" /\ Len(results) > 0
  THEN Respond([l EXCEPT !.contactId = results[1].id, !.action = "found"],
               OkResponse(results[1].id, NoId,
                          IF rq.ep = "create" THEN "found" ELSE "note_added"))
  ELSE IF o.kind \in {"ok", "status"}
  THEN HandlerCatch(l, "Failed to ensure contact exists", rq.createStatus, <<>>)
  ELSE HandlerCatch(l, Thrown, 0, <<>>)

\* ensureContactExists after the search fetch of the 409 branch
EnsureAfterSearch(rq, o, results) ==
  LET l == Searched(rq, o, results) IN
  IF o.kind = "ok" /\ Len(results) > 0
  THEN [l EXCEPT !.contactId = results[1].id, !.action = "found", !.pc = "note"]
  ELSE IF o.kind \in {"ok", "status"}
  THEN HandlerCatch(l, "Failed to ensure contact exists", rq.createStatus, <<>>)
  ELSE HandlerCatch(l, Thrown, 0, <<>>)

EnsureSearch(r) ==
  /\ variant = "note"
  /\ req[r].pc = "ensure_search"
  /\ \E o \in SearchOutcomes :
       req' = [req EXCEPT ![r] = EnsureAfterSearch(req[r], o, SearchResults(o, req[r].email))]
  /\ UNCHANGED <<variant, keySet, contacts, notes>>

\* a mutant of AfterNote: the action of the response is always "created"
AfterNoteCreated(rq, o, noteId) ==
  LET l == Logged(rq, Call("note", "", rq.contactId, NoteContent(rq.notes), FALSE), o) IN
  IF o.kind = "ok"
  THEN Respond(l, OkResponse(rq.contactId, noteId,
                             IF rq.ep = "create" THEN "created" ELSE "note_added"))
  ELSE IF o.kind = "status"
  THEN HandlerCatch(l, "Note creation failed", o.status, <<"w">>)
  ELSE HandlerCatch(l, Thrown, 0, <<>>)

\* a mutant of AfterNote: a note call whose answer is lost or unreadable is
\* reported as a success without a note id
AfterNoteThrownSwallowed(rq, o, noteId) ==
  LET l == Logged(rq, Call("note", "", rq.contactId, NoteContent(rq.notes), FALSE), o) IN
  IF o.kind = "ok"
  THEN Respond(l, OkResponse(rq.contactId, noteId,
                             IF rq.ep = "create" THEN rq.action ELSE "note_added"))
  ELSE IF o.kind = "status"
  THEN HandlerCatch(l, "Note creation failed", o.status, <<"w">>)
  ELSE Respond(l, OkResponse(rq.contactId, NoId,
                             IF rq.ep = "create" THEN rq.action ELSE "note_added"))

\* a mutant of AfterNote: a failed note call is reported as a success without
\* a note id
AfterNotePartialSuccess(rq, o, noteId) ==
  LET l == Logged(rq, Call("note", "", rq.contactId, NoteContent(rq.notes), FALSE), o) IN
  IF o.kind = "ok"
  THEN Respond(l, OkResponse(rq.contactId, noteId,
                             IF rq.ep = "create" THEN rq.action ELSE "note_added"))
  ELSE IF o.kind = "status"
  THEN Respond(l, OkResponse(rq.contactId, NoId,
                             IF rq.ep = "create" THEN rq.action ELSE "note_added"))
  ELSE HandlerCatch(l, Thrown, 0, <<>>)

\* createContactNote after its fetch, and the handler's response
AfterNote(rq, o, noteId) ==
  LET l == Logged(rq, Call("note", "", rq.contactId, NoteContent(rq.notes), FALSE), o) IN
  IF o.kind = "ok"
  THEN Respond(l, OkResponse(rq.contactId, noteId,
                             IF rq.ep = "create" THEN rq.action ELSE "note_added"))
  ELSE IF o.kind = "status"
  THEN HandlerCatch(l, "Note creation failed", o.status, <<"w">>)
  ELSE HandlerCatch(l, Thrown, 0, <<>>)

\* a mutant of CreateContactNote: the note is made without associations, to be
\* associated by a later call
CreateContactNoteUnassociated(r) ==
  /\ variant = "note"
  /\ req[r].pc = "note"
  /\ \E o \in NoteOutcomes(req[r].contactId) :
       /\ notes' = IF Effect(o)
                   THEN Append(notes, [id |-> NewNoteId, contact |-> NoId,
                                       body |-> NoteContent(req[r].notes), req |-> r])
                   ELSE notes
       /\ req' = [req EXCEPT ![r] = AfterNote(req[r], o, NewNoteId)]
  /\ UNCHANGED <<variant, keySet, contacts>>

\* a mutant of CreateContactNote: no second note with the same text is made
\* for a contact; the id of the first is answered
CreateContactNoteDedup(r) ==
  /\ variant = "note"
  /\ req[r].pc = "note"
  /\ \E o \in NoteOutcomes(req[r].contactId) :
       LET same == {i \in 1..Len(notes) :
                      /\ notes[i].contact = req[r].contactId
                      /\ notes[i].body = NoteContent(req[r].notes)} IN
       /\ notes' = IF Effect(o) /\ same = {}
                   THEN Append(notes, [id |-> NewNoteId, contact |-> req[r].contactId,
                                       body |-> NoteContent(req[r].notes), req |-> r])
                   ELSE notes
       /\ req' = [req EXCEPT ![r] =
                    AfterNote(req[r], o, IF same = {} THEN NewNoteId
                                         ELSE notes[CHOOSE i \in same : TRUE].id)]
  /\ UNCHANGED <<variant, keySet, contacts>>

CreateContactNote(r) ==
  /\ variant = "note"
  /\ req[r].pc = "note"
  /\ \E o \in NoteOutcomes(req[r].contactId) :
       /\ notes' = IF Effect(o)
                   THEN Append(notes, [id |-> NewNoteId, contact |-> req[r].contactId,
                                       body |-> NoteContent(req[r].notes), req |-> r])
                   ELSE notes
       /\ req' = [req EXCEPT ![r] = AfterNote(req[r], o, NewNoteId)]
  /\ UNCHANGED <<variant, keySet, contacts>>

\* --------------------------------------- "upsert": src/unnamed/part_001
\* notes || '': every falsy notes is sent as the empty string
TextProperty(n) == IF n = "" THEN "" ELSE n

UpsertCreateContact(r) ==
  /\ variant = "upsert"
  /\ Arrives(r)
  /\ \E e \in EmailInputs, n \in NoteInputs :
       req' = [req EXCEPT ![r] = Gate(req[r], "create", e, n, "upsert_create")]
  /\ UNCHANGED <<variant, keySet, contacts, notes>>

UpsertUpdateContact(r) ==
  /\ variant = "upsert"
  /\ Arrives(r)
  /\ \E e \in EmailInputs, n \in NoteInputs :
       req' = [req EXCEPT ![r] = Gate(req[r], "update", e, n, "upd_by_email")]
  /\ UNCHANGED <<variant, keySet, contacts, notes>>

\* mutants of UpsertAfterCreate
\* a 409 without an id in its text is an error
UpsertAfterCreateFatal(rq, o, id, text) ==
  LET l == Logged(rq, Call("create", rq.email, NoId, TextProperty(rq.notes), FALSE), o) IN
  IF o.kind = "ok"
  THEN Respond([l EXCEPT !.createStatus = o.status, !.contactId = id],
               OkResponse(id, NoId, "created"))
  ELSE IF o.kind = "status" /\ o.status = Conflict /\ ExtractId(text) # NoId
  THEN [l EXCEPT !.createStatus = o.status, !.errorText = text, !.contactId = ExtractId(text),
                 !.pc = "upd_existing"]
  ELSE IF o.kind = "status"
  THEN Respond([l EXCEPT !.createStatus = o.status, !.errorText = text],
               ErrorResponse(500, "Failed to create contact", "HubSpot API error",
                             o.status, <<"w">>))
  ELSE Respond(l, ErrorResponse(500, "Failed to create contact", Thrown, 0, <<>>))

\* the text of the 409 is not read: the contact is always searched
UpsertAfterCreateAlwaysSearch(rq, o, id, text) ==
  LET l == Logged(rq, Call("create", rq.email, NoId, TextProperty(rq.notes), FALSE), o) IN
  IF o.kind = "ok"
  THEN Respond([l EXCEPT !.createStatus = o.status, !.contactId = id],
               OkResponse(id, NoId, "created"))
  ELSE IF o.kind = "status" /\ o.status = Conflict
  THEN [l EXCEPT !.createStatus = o.status, !.errorText = text, !.pc = "upd_by_email"]
  ELSE IF o.kind = "status"
  THEN Respond([l EXCEPT !.createStatus = o.status, !.errorText = text],
               ErrorResponse(500, "Failed to create contact", "HubSpot API error",
                             o.status, <<"w">>))
  ELSE Respond(l, ErrorResponse(500, "Failed to create contact", Thrown, 0, <<>>))

\* the create-contact handler after its fetch; text is the body of a non-2xx
\* answer, read into errorText
UpsertAfterCreate(rq, o, id, text) ==
  LET l == Logged(rq, Call("create", rq.email, NoId, TextProperty(rq.notes), FALSE), o) IN
  IF o.kind = "ok"
  THEN Respond([l EXCEPT !.createStatus = o.status, !.contactId = id],
               OkResponse(id, NoId, "created"))
  ELSE IF o.kind = "status" /\ o.status = Conflict
  THEN LET existingId == ExtractId(text) IN
       IF existingId # NoId
       THEN [l EXCEPT !.createStatus = o.status, !.errorText = text, !.contactId = existingId,
                      !.pc = "upd_existing"]
       ELSE [l EXCEPT !.createStatus = o.status, !.errorText = text, !.pc = "upd_by_email"]
  ELSE IF o.kind = "status"
  THEN Respond([l EXCEPT !.createStatus = o.status, !.errorText = text],
               ErrorResponse(500, "Failed to create contact", "HubSpot API error",
                             o.status, <<"w">>))
  ELSE Respond(l, ErrorResponse(500, "Failed to create contact", Thrown, 0, <<>>))

UpsertCreate(r) ==
  /\ variant = "upsert"
  /\ req[r].pc = "upsert_create"
  /\ \E o \in CreateOutcomes(req[r].email), style \in BodyStyles :
       /\ contacts' = ContactsAfterCreate(o, req[r].email, TextProperty(req[r].notes))
       /\ req' = [req EXCEPT ![r] =
                    UpsertAfterCreate(req[r], o, NewContactId,
                                      IF o.status = Conflict
                                      THEN ConflictText(style, req[r].email)
                                      ELSE <<"w">>)]
  /\ UNCHANGED <<variant, keySet, notes>>

\* a mutant of AfterSearchByEmail: the error of an empty result is answered in
\* place, without leaving the function, which goes on to the PATCH
AfterSearchByEmailNoReturn(rq, o, results) ==
  LET l == Searched(rq, o, results) IN
  IF o.kind = "status"
  THEN Respond(l, ErrorResponse(500, "Failed to update contact", "Search failed",
                                o.status, <<>>))
  ELSE IF o.kind = "thrown"
  THEN Respond(l, ErrorResponse(500, "Failed to update contact", Thrown, 0, <<>>))
  ELSE IF Len(results) = 0
  THEN [Respond(l, ErrorResponse(500, "Failed to update contact",
                                 "Contact not found for update", 0, <<>>))
          EXCEPT !.pc = "upd_existing"]
  ELSE [l EXCEPT !.contactId = results[1].id, !.pc = "upd_existing"]

\* updateContactByEmail after its search fetch
AfterSearchByEmail(rq, o, results) ==
  LET l == Searched(rq, o, results) IN
  IF o.kind = "status"
  THEN Respond(l, ErrorResponse(500, "Failed to update contact", "Search failed",
                                o.status, <<>>))
  ELSE IF o.kind = "thrown"
  THEN Respond(l, ErrorResponse(500, "Failed to update contact", Thrown, 0, <<>>))
  ELSE IF Len(results) = 0
  THEN Respond(l, ErrorResponse(500, "Failed to update contact",
                                "Contact not found for update", 0, <<>>))
  ELSE [l EXCEPT !.contactId = results[1].id, !.pc = "upd_existing"]

UpdateContactByEmail(r) ==
  /\ variant = "upsert"
  /\ req[r].pc = "upd_by_email"
  /\ \E o \in SearchOutcomes :
       req' = [req EXCEPT ![r] = AfterSearchByEmail(req[r], o, SearchResults(o, req[r].email))]
  /\ UNCHANGED <<variant, keySet, contacts, notes>>

\* the create-contact handler passes requestBody, {properties: {...}}, as the
\* properties of updateExistingContact, which sends {properties: properties}
Wrapped(rq) == rq.ep = "create"

\* updateExistingContact after its PATCH fetch
AfterUpdateExisting(rq, o) ==
  LET l == Logged(rq, Call("patch", IF rq.ep = "create" THEN rq.email ELSE "",
                           rq.contactId, TextProperty(rq.notes), Wrapped(rq)), o) IN
  IF o.kind = "ok"
  THEN Respond(l, OkResponse(rq.contactId, NoId, "updated"))
  ELSE IF o.kind = "status"
  THEN Respond(l, ErrorResponse(500, "Failed to update contact", "Update failed",
                                o.status, <<"w">>))
  ELSE Respond(l, ErrorResponse(500, "Failed to update contact", Thrown, 0, <<>>))

UpdateExistingContact(r) ==
  /\ variant = "upsert"
  /\ req[r].pc = "upd_existing"
  /\ \E o \in PatchOutcomes(req[r].contactId, Wrapped(req[r])) :
       /\ contacts' = ContactsAfterPatch(o, req[r].contactId,
                                         TextProperty(req[r].notes), Wrapped(req[r]))
       /\ req' = [req EXCEPT ![r] = AfterUpdateExisting(req[r], o)]
  /\ UNCHANGED <<variant, keySet, notes>>

\* --------------------------------------- "simple": src/server.js 1-232
SimpleCreateContact(r) ==
  /\ variant = "simple"
  /\ Arrives(r)
  /\ \E e \in EmailInputs, n \in NoteInputs :
       req' = [req EXCEPT ![r] = Gate(req[r], "create", e, n, "simple_create")]
  /\ UNCHANGED <<variant, keySet, contacts, notes>>

SimpleUpdateContact(r) ==
  /\ variant = "simple"
  /\ Arrives(r)
  /\ \E e \in EmailInputs, n \in NoteInputs :
       req' = [req EXCEPT ![r] = Gate(req[r], "update", e, n, "simple_search")]
  /\ UNCHANGED <<variant, keySet, contacts, notes>>

\* create-contact after its fetch: every non-2xx answer, 409 too, is an error
PlainAfterCreate(rq, o, id, withDetails) ==
  LET l == Logged(rq, Call("create", rq.email, NoId, TextProperty(rq.notes), FALSE), o) IN
  IF o.kind = "ok"
  THEN Respond([l EXCEPT !.createStatus = o.status, !.contactId = id],
               OkResponse(id, NoId, "none"))
  ELSE IF o.kind = "status"
  THEN Respond([l EXCEPT !.createStatus = o.status],
               IF withDetails
               THEN ErrorResponse(500, "Failed to create contact", "HubSpot API error",
                                  o.status, <<"w">>)
               ELSE ErrorResponse(500, "Failed to create contact", "none", 0, <<>>))
  ELSE Respond(l, IF withDetails
                  THEN ErrorResponse(500, "Failed to create contact", Thrown, 0, <<>>)
                  ELSE ErrorResponse(500, "Failed to create contact", "none", 0, <<>>))

SimpleCreate(r) ==
  /\ variant = "simple"
  /\ req[r].pc = "simple_create"
  /\ \E o \in CreateOutcomes(req[r].email) :
       /\ contacts' = ContactsAfterCreate(o, req[r].email, TextProperty(req[r].notes))
       /\ req' = [req EXCEPT ![r] = PlainAfterCreate(req[r], o, NewContactId, TRUE)]
  /\ UNCHANGED <<variant, keySet, notes>>

\* update-contact after its search fetch
SimpleAfterSearch(rq, o, results) ==
  LET l == Searched(rq, o, results) IN
  IF o.kind = "status" \/ (o.kind = "ok" /\ Len(results) = 0)
  THEN Respond(l, ErrorResponse(404, "Contact not found", "none", 0, <<>>))
  ELSE IF o.kind = "thrown"
  THEN Respond(l, ErrorResponse(500, "Failed to update contact", Thrown, 0, <<>>))
  ELSE [l EXCEPT !.contactId = results[1].id, !.pc = "simple_patch"]

SimpleSearch(r) ==
  /\ variant = "simple"
  /\ req[r].pc = "simple_search"
  /\ \E o \in SearchOutcomes :
       req' = [req EXCEPT ![r] = SimpleAfterSearch(req[r], o, SearchResults(o, req[r].email))]
  /\ UNCHANGED <<variant, keySet, contacts, notes>>

\* update-contact after its PATCH fetch, {properties: {notes}}
PlainAfterPatch(rq, o) ==
  LET l == Logged(rq, Call("patch", "", rq.contactId, TextProperty(rq.notes), FALSE), o) IN
  IF o.kind = "ok"
  THEN Respond(l, OkResponse(rq.contactId, NoId, "none"))
  ELSE IF o.kind = "status"
  THEN Respond(l, ErrorResponse(500, "Failed to update contact", "HubSpot API error",
                                o.status, <<"w">>))
  ELSE Respond(l, ErrorResponse(500, "Failed to update contact", Thrown, 0, <<>>))

SimplePatch(r) ==
  /\ variant = "simple"
  /\ req[r].pc = "simple_patch"
  /\ \E o \in PatchOutcomes(req[r].contactId, FALSE) :
       /\ contacts' = ContactsAfterPatch(o, req[r].contactId, TextProperty(req[r].notes), FALSE)
       /\ req' = [req EXCEPT ![r] = PlainAfterPatch(req[r], o)]
  /\ UNCHANGED <<variant, keySet, notes>>

\* ----------------------------------------- "byid": src/unnamed/part_000
\* what req.body.contactId can be: NoId stands for every falsy value
ContactIdInputs == {NoId, ToDigits(FirstId), ToDigits(FirstId + 1)}

ByIdSearchContact(r) ==
  /\ variant = "byid"
  /\ Arrives(r)
  /\ \E e \in EmailInputs :
       req' = [req EXCEPT ![r] = Gate(req[r], "search", e, "", "byid_search")]
  /\ UNCHANGED <<variant, keySet, contacts, notes>>

ByIdCreateContact(r) ==
  /\ variant = "byid"
  /\ Arrives(r)
  /\ \E e \in EmailInputs, n \in NoteInputs :
       req' = [req EXCEPT ![r] = Gate(req[r], "create", e, n, "byid_create")]
  /\ UNCHANGED <<variant, keySet, contacts, notes>>

\* the two checks of update-contact: it reads contactId and notes; the email
\* of the body, if any, is not read
GateById(rq, c, n) ==
  LET base == [rq EXCEPT !.ep = "update", !.notes = n, !.contactId = c] IN
  IF c = NoId
  THEN Respond(base, ErrorResponse(400, "Contact ID is required", "none", 0, <<>>))
  ELSE IF ~keySet
  THEN Respond(base, ErrorResponse(500, "HubSpot API key not configured", "none", 0, <<>>))
  ELSE [base EXCEPT !.pc = "byid_get"]

ByIdUpdateContact(r) ==
  /\ variant = "byid"
  /\ Arrives(r)
  /\ \E c \in ContactIdInputs, n \in NoteInputs :
       req' = [req EXCEPT ![r] = GateById(req[r], c, n)]
  /\ UNCHANGED <<variant, keySet, contacts, notes>>

\* a mutant of ByIdAfterSearch: a search without results is answered 404
ByIdAfterSearchNotFound(rq, o, results) ==
  LET l == Searched(rq, o, results) IN
  IF o.kind = "ok" /\ Len(results) > 0
  THEN Respond(l, OkResponse(results[1].id, NoId, "none"))
  ELSE IF o.kind = "ok"
  THEN Respond(l, ErrorResponse(404, "Contact not found", "none", 0, <<>>))
  ELSE IF o.kind = "status"
  THEN Respond(l, ErrorResponse(500, "Failed to search contact", "HubSpot API error",
                                o.status, <<"w">>))
  ELSE Respond(l, ErrorResponse(500, "Failed to search contact", Thrown, 0, <<>>))

\* search-contact after its fetch: { contact }, the first result or null
ByIdAfterSearch(rq, o, results) ==
  LET l == Searched(rq, o, results) IN
  IF o.kind = "ok"
  THEN Respond(l, OkResponse(IF Len(results) > 0 THEN results[1].id ELSE NoId,
                             NoId, "none"))
  ELSE IF o.kind = "status"
  THEN Respond(l, ErrorResponse(500, "Failed to search contact", "HubSpot API error",
                                o.status, <<"w">>))
  ELSE Respond(l, ErrorResponse(500, "Failed to search contact", Thrown, 0, <<>>))

ByIdSearch(r) ==
  /\ variant = "byid"
  /\ req[r].pc = "byid_search"
  /\ \E o \in SearchOutcomes :
       req' = [req EXCEPT ![r] = ByIdAfterSearch(req[r], o, SearchResults(o, req[r].email))]
  /\ UNCHANGED <<variant, keySet, contacts, notes>>

ByIdCreate(r) ==
  /\ variant = "byid"
  /\ req[r].pc = "byid_create"
  /\ \E o \in CreateOutcomes(req[r].email) :
       /\ contacts' = ContactsAfterCreate(o, req[r].email, TextProperty(req[r].notes))
       /\ req' = [req EXCEPT ![r] = PlainAfterCreate(req[r], o, NewContactId, FALSE)]
  /\ UNCHANGED <<variant, keySet, notes>>

\* a mutant of ByIdAfterGet: a failed validation is logged and the handler
\* returns without a response
ByIdAfterGetNoResponse(rq, o) ==
  LET l == Logged(rq, Call("get", "", rq.contactId, "", FALSE), o) IN
  IF o.kind = "ok" THEN [l EXCEPT !.pc = "byid_patch"]
  ELSE IF o.kind = "status"
  THEN [l EXCEPT !.pc = "returned"]
  ELSE Respond(l, ErrorResponse(500, "Failed to update contact", Thrown, 0, <<>>))

\* a mutant of ByIdAfterGet: a failed validation is logged and the PATCH is
\* sent all the same
ByIdAfterGetLenient(rq, o) ==
  LET l == Logged(rq, Call("get", "", rq.contactId, "", FALSE), o) IN
  IF o.kind \in {"ok", "status"} THEN [l EXCEPT !.pc = "byid_patch"]
  ELSE Respond(l, ErrorResponse(500, "Failed to update contact", Thrown, 0, <<>>))

\* update-contact after the GET that validates the contact id
ByIdAfterGet(rq, o) ==
  LET l == Logged(rq, Call("get", "", rq.contactId, "", FALSE), o) IN
  IF o.kind = "ok" THEN [l EXCEPT !.pc = "byid_patch"]
  ELSE IF o.kind = "status"
  THEN Respond(l, ErrorResponse(404, "Contact not found or invalid contact ID",
                                "none", 0, <<>>))
  ELSE Respond(l, ErrorResponse(500, "Failed to update contact", Thrown, 0, <<>>))

ByIdGet(r) ==
  /\ variant = "byid"
  /\ req[r].pc = "byid_get"
  /\ \E o \in GetOutcomes(req[r].contactId) :
       req' = [req EXCEPT ![r] = ByIdAfterGet(req[r], o)]
  /\ UNCHANGED <<variant, keySet, contacts, notes>>

ByIdPatch(r) ==
  /\ variant = "byid"
  /\ req[r].pc = "byid_patch"
  /\ \E o \in PatchOutcomes(req[r].contactId, FALSE) :
       /\ contacts' = ContactsAfterPatch(o, req[r].contactId, TextProperty(req[r].notes), FALSE)
       /\ req' = [req EXCEPT ![r] = PlainAfterPatch(req[r], o)]
  /\ UNCHANGED <<variant, keySet, notes>>

\* --------------------------------------------------------------- Init
\* the emails the remote holds a contact for before the server starts
PreEmails == {"a@x.com"}

RECURSIVE Preexisting(_, _)
\* one contact per email of es
Preexisting(es, n) ==
  IF es = {} THEN <<>>
  ELSE LET e == CHOOSE x \in es : TRUE IN
       <<[id |-> ToDigits(FirstId + n), email |-> e, text |-> "", old |-> TRUE]>>
         \o Preexisting(es \ {e}, n + 1)

InitIn(vs) ==
  /\ variant \in vs
  /\ keySet \in BOOLEAN
  /\ contacts = Preexisting(PreEmails, 0)
  /\ notes = <<>>
  /\ req = [r \in Requests |-> IdleReq]

Init == InitIn(Variants)

NextNote ==
  \/ \E r \in Requests : NoteCreateContact(r)
  \/ \E r \in Requests : NoteUpdateContact(r)
  \/ \E r \in Requests : EnsureCreate(r)
  \/ \E r \in Requests : EnsureSearch(r)
  \/ \E r \in Requests : CreateContactNote(r)

NextUpsert ==
  \/ \E r \in Requests : UpsertCreateContact(r)
  \/ \E r \in Requests : UpsertUpdateContact(r)
  \/ \E r \in Requests : UpsertCreate(r)
  \/ \E r \in Requests : UpdateContactByEmail(r)
  \/ \E r \in Requests : UpdateExistingContact(r)

NextSimple ==
  \/ \E r \in Requests : SimpleCreateContact(r)
  \/ \E r \in Requests : SimpleUpdateContact(r)
  \/ \E r \in Requests : SimpleCreate(r)
  \/ \E r \in Requests : SimpleSearch(r)
  \/ \E r \in Requests : SimplePatch(r)

NextById ==
  \/ \E r \in Requests : ByIdSearchContact(r)
  \/ \E r \in Requests : ByIdCreateContact(r)
  \/ \E r \in Requests : ByIdUpdateContact(r)
  \/ \E r \in Requests : ByIdSearch(r)
  \/ \E r \in Requests : ByIdCreate(r)
  \/ \E r \in Requests : ByIdGet(r)
  \/ \E r \in Requests : ByIdPatch(r)

NextInfo ==
  \/ \E r \in Requests : GetConfig(r)
  \/ \E r \in Requests : GetHealth(r)

Next == NextNote \/ NextUpsert \/ NextSimple \/ NextById \/ NextInfo

\* every version of the server
Spec == Init /\ [][Next]_vars

\* the deployed server is the note version
SpecNote == InitIn({"note"}) /\ [][NextNote]_vars

\* the deployed server is the version that updates on a conflict
SpecUpsert == InitIn({"upsert"}) /\ [][NextUpsert]_vars

\* the deployed server is the version that updates by contact id
SpecById == InitIn({"byid"}) /\ [][NextById]_vars

\* the two versions that resolve a conflict: the note version and the version
\* that updates on a conflict
NextConflict == NextNote \/ NextUpsert

SpecConflict == InitIn({"note", "upsert"}) /\ [][NextConflict]_vars

\* the fetch a request is suspended at settles: the remote answers, or the
\* call fails, and the handler runs on to its next fetch or to its response
FetchSettles(r) ==
  \/ EnsureCreate(r) \/ EnsureSearch(r) \/ CreateContactNote(r)
  \/ UpsertCreate(r) \/ UpdateContactByEmail(r) \/ UpdateExistingContact(r)
  \/ SimpleCreate(r) \/ SimpleSearch(r) \/ SimplePatch(r)
  \/ ByIdSearch(r) \/ ByIdCreate(r) \/ ByIdGet(r) \/ ByIdPatch(r)

\* a request arrives at create-contact, update-contact or search-contact
HubspotRequest(r) ==
  \/ NoteCreateContact(r) \/ NoteUpdateContact(r)
  \/ UpsertCreateContact(r) \/ UpsertUpdateContact(r)
  \/ SimpleCreateContact(r) \/ SimpleUpdateContact(r)
  \/ ByIdSearchContact(r) \/ ByIdCreateContact(r) \/ ByIdUpdateContact(r)

\* the requests that arrive when the remote calls are taken to settle; no
\* handler waits for another request, only for its own fetch
FairRequests == 1..NumFair

NextFair == \E r \in FairRequests : HubspotRequest(r) \/ FetchSettles(r)

\* every version of the server, each remote call eventually settling
SpecFair ==
  Init /\ [][NextFair]_vars /\ \A r \in FairRequests : WF_vars(FetchSettles(r))

\* ------------------------------------------------------------ claims
Response(rq) == rq.resp[Len(rq.resp)]
Kinds(rq) == [i \in 1..Len(rq.calls) |-> rq.calls[i].kind]
\* the text of the 409 holds "ID:", white space or none, and a digit
EmbedsId(text) == \E i \in 1..Len(text) : MatchAt(text, i)
Conflicted(rq) == rq.createStatus = Conflict
\* the contact resolution of the request has returned an id
Resolved(rq) == rq.contactId # NoId
NotesBy(r) == {i \in 1..Len(notes) : notes[i].req = r}
ByIdUpdate(rq) == variant = "byid" /\ rq.ep = "update"
\* the request went to an endpoint under /api/hubspot
ContactApi(rq) == rq.ep \in {"create", "update", "search"}

\* C1: two create-contact requests for one email, the second arriving after the
\* first succeeded, no contact for the email before and no other request for
\* it: the first created, the remote holds one contact for the email, and the
\* second, when it resolves, finds that same contact id.
C1_SequentialIdempotence ==
  \A r1 \in Requests, r2 \in Requests :
    ( /\ variant = "note"
      /\ req[r1].ep = "create" /\ req[r2].ep = "create"
      /\ req[r1].email = req[r2].email
      /\ r1 \in req[r2].after
      /\ \A i \in ContactsWith(req[r1].email) : ~contacts[i].old
      /\ \A q \in Requests \ {r1} : q < r2 => req[q].email # req[r1].email )
    => /\ req[r1].action = "created"
       /\ Cardinality(ContactsWith(req[r1].email)) = 1
       /\ Resolved(req[r2]) =>
            /\ req[r2].contactId = req[r1].contactId
            /\ req[r2].action = "found"
       /\ Succeeded(req[r2]) =>
            /\ Response(req[r2]).contactId = Response(req[r1]).contactId
            /\ Response(req[r1]).action = "created"
            /\ Response(req[r2]).action = "found"

C1_Witness ==
  \E r1 \in Requests, r2 \in Requests :
    /\ variant = "note"
    /\ req[r1].ep = "create" /\ req[r2].ep = "create"
    /\ req[r1].email = req[r2].email
    /\ r1 \in req[r2].after
    /\ \A i \in ContactsWith(req[r1].email) : ~contacts[i].old
    /\ Succeeded(req[r2])
    /\ Response(req[r2]).action = "found"

C3_ConflictWithoutId ==
  \A r \in Requests :
    (Conflicted(req[r]) /\ ~EmbedsId(req[r].errorText))
    => /\ req[r].pc \in {"ensure_search", "upd_by_email"} =>
            CallsOf(req[r], "search") = {}
       /\ req[r].pc \notin {"ensure_search", "upd_by_email"} =>
            /\ Cardinality(CallsOf(req[r], "search")) = 1
            /\ \A i \in CallsOf(req[r], "search") :
                 req[r].calls[i].email = req[r].email
       /\ Resolved(req[r]) =>
            /\ req[r].hits > 0
            /\ req[r].contactId = Matching(req[r].email, 1)[1].id

C3_Witness ==
  \E r \in Requests :
    /\ variant = "upsert"
    /\ req[r].errorText # <<>>
    /\ Conflicted(req[r]) /\ ~EmbedsId(req[r].errorText)
    /\ Resolved(req[r])
    /\ Succeeded(req[r])

\* C4: a 409 followed by a search that answers no result ends the request with
\* an error response, without a note, a note call or a PATCH.
C4_ConflictThenEmptySearch ==
  \A r \in Requests :
    (Conflicted(req[r]) /\ req[r].hits = 0)
    => /\ Answered(req[r])
       /\ Len(req[r].resp) = 1
       /\ Response(req[r]).status = 500
       /\ ~Resolved(req[r])
       /\ CallsOf(req[r], "note") = {}
       /\ CallsOf(req[r], "patch") = {}
       /\ NotesBy(r) = {}

C4_Witness ==
  \E r \in Requests :
    /\ variant = "note"
    /\ Conflicted(req[r]) /\ req[r].hits = 0
    /\ Answered(req[r])

\* C5: a create answered with a non-2xx status other than 409 ends the request
\* with an error response; the create is its only remote call.
C5_NonConflictCreateFatal ==
  \A r \in Requests :
    (req[r].createStatus >= 300 /\ req[r].createStatus # Conflict)
    => /\ Answered(req[r])
       /\ Len(req[r].resp) = 1
       /\ Response(req[r]).status = 500
       /\ Kinds(req[r]) = <<"create">>
       /\ NotesBy(r) = {}

C5_Witness ==
  \E r \in Requests :
    /\ variant = "note"
    /\ req[r].createStatus = 500
    /\ Answered(req[r])

\* C6, as claimed: in every endpoint of every version a request without an
\* email is answered 400 and issues no remote call.
C6_Original ==
  \A r \in Requests :
    (req[r].pc # "idle" /\ ContactApi(req[r]) /\ req[r].email = "")
    => /\ Answered(req[r])
       /\ Response(req[r]).status = 400
       /\ req[r].calls = <<>>

\* C6, amended: every endpoint that reads the email answers a request without
\* one with 400 "Email is required", once, and issues no remote call for it;
\* update-contact by contact id does not read the email: its gate is on the
\* contact id, and without one it answers 400 and issues no remote call.
C6_ValidationGate ==
  \A r \in Requests :
    /\ (req[r].pc # "idle" /\ ContactApi(req[r]) /\ ~ByIdUpdate(req[r])
          /\ req[r].email = "")
       => /\ Answered(req[r])
          /\ Len(req[r].resp) = 1
          /\ Response(req[r]).status = 400
          /\ Response(req[r]).error = "Email is required"
          /\ req[r].calls = <<>>
          /\ NotesBy(r) = {}
    /\ (req[r].pc # "idle" /\ ByIdUpdate(req[r]) /\ req[r].contactId = NoId)
       => /\ Answered(req[r])
          /\ Len(req[r].resp) = 1
          /\ Response(req[r]).status = 400
          /\ Response(req[r]).error = "Contact ID is required"
          /\ req[r].calls = <<>>

C6_Witness ==
  \E r \in Requests, q \in Requests :
    /\ req[r].pc # "idle" /\ ContactApi(req[r]) /\ ~ByIdUpdate(req[r])
    /\ req[r].email = ""
    /\ Response(req[r]).status = 400
    /\ q # r /\ req[q].calls # <<>>

\* C7: a note call is issued, and a note exists, only for a request whose
\* contact resolution has returned an id, after its create call (and after its
\* search call when the create was a conflict), and for that id; a request
\* whose resolution returned none never reaches the note call.
C7_AttachOnlyAfterResolve ==
  /\ \A i \in 1..Len(notes) :
       /\ Resolved(req[notes[i].req])
       /\ notes[i].contact = req[notes[i].req].contactId
       /\ notes[i].contact \in ContactIds
  /\ \A r \in Requests :
       /\ \A i \in CallsOf(req[r], "note") :
            /\ Resolved(req[r])
            /\ req[r].calls[i].id = req[r].contactId
            /\ req[r].action \in {"created", "found"}
            /\ i > 1 /\ req[r].calls[1].kind = "create"
            /\ Conflicted(req[r]) =>
                 /\ \E j \in CallsOf(req[r], "search") : j < i
                 /\ req[r].hits > 0
       /\ ~Resolved(req[r]) => (CallsOf(req[r], "note") = {} /\ req[r].pc # "note")
       /\ req[r].pc = "note" => req[r].action \in {"created", "found"}

C7_Witness ==
  \E r \in Requests :
    /\ req[r].ep = "update"
    /\ Conflicted(req[r])
    /\ NotesBy(r) # {}
    /\ \E q \in Requests : ~Resolved(req[q]) /\ Answered(req[q]) /\ req[q].calls # <<>>

\* C8: the id a contact resolution returned, by create, by the id in the text
\* of the 409 or by search, is the id of a remote contact with the email of the
\* request.
C8_ResolvedIdMatchesEmail ==
  \A r \in Requests :
    Resolved(req[r]) =>
      \E i \in 1..Len(contacts) :
        /\ contacts[i].id = req[r].contactId
        /\ contacts[i].email = req[r].email

C8_Witness ==
  \E r1 \in Requests, r2 \in Requests :
    /\ variant = "upsert"
    /\ req[r1].email # req[r2].email
    /\ req[r1].pc = "upsert_create"
    /\ req[r2].pc = "upd_existing"
    /\ Conflicted(req[r2]) /\ EmbedsId(req[r2].errorText)
    /\ Resolved(req[r2])

\* C9: a create-contact request answered with success reports the resolved
\* contact id, the id of the note made for it, and an action that is
\* "created" exactly when its create was accepted and "found" exactly when it
\* was a conflict.
C9_SuccessResponse ==
  \A r \in Requests :
    (variant = "note" /\ req[r].ep = "create" /\ Succeeded(req[r]))
    => /\ Resolved(req[r])
       /\ Response(req[r]).contactId = req[r].contactId
       /\ Cardinality(NotesBy(r)) = 1
       /\ \A i \in NotesBy(r) :
            /\ Response(req[r]).noteId = notes[i].id
            /\ notes[i].contact = Response(req[r]).contactId
       /\ Response(req[r]).action \in {"created", "found"}
       /\ Response(req[r]).action = "created" <=> req[r].createStatus = 201
       /\ Response(req[r]).action = "found" <=> Conflicted(req[r])

C9_Witness ==
  \E r \in Requests :
    /\ variant = "note" /\ req[r].ep = "create" /\ Succeeded(req[r])
    /\ Response(req[r]).action = "created"
    /\ Response(req[r]).noteId # ToDigits(FirstNoteId)

\* C10: the remote calls of a request of the note version are a create, then
\* at most one search, then at most one note call: three at most, none twice.
C10_BoundedOrderedCalls ==
  \A r \in Requests :
    Kinds(req[r]) \in {<<>>, <<"create">>, <<"create", "search">>,
                       <<"create", "note">>, <<"create", "search", "note">>}

C10_Witness ==
  \E r \in Requests, q \in Requests :
    /\ Kinds(req[r]) = <<"create", "search", "note">>
    /\ Kinds(req[q]) = <<"create", "search">> /\ Answered(req[q])

\* the create-contact requests for email e
CreatesFor(e) == {r \in Requests : req[r].ep = "create" /\ req[r].email = e}

\* C11: whatever the interleaving of the requests of the note version, the
\* remote holds at most one contact per email, at most one create-contact
\* request for an email resolves with (and reports) action "created", and the
\* create-contact requests for one email that resolve, and those that succeed,
\* all carry the same contact id.
C11_ConcurrentResolvesConverge ==
  \A e \in Emails :
    /\ Cardinality(ContactsWith(e)) <= 1
    /\ Cardinality({r \in CreatesFor(e) : req[r].action = "created"}) <= 1
    /\ Cardinality({r \in CreatesFor(e) :
                      Succeeded(req[r]) /\ Response(req[r]).action = "created"}) <= 1
    /\ \A r1 \in CreatesFor(e), r2 \in CreatesFor(e) :
         /\ (Resolved(req[r1]) /\ Resolved(req[r2]))
            => req[r1].contactId = req[r2].contactId
         /\ (Succeeded(req[r1]) /\ Succeeded(req[r2]))
            => Response(req[r1]).contactId = Response(req[r2]).contactId

\* two requests for a new email, in flight together, both answered with success
C11_Witness ==
  \E r1 \in Requests, r2 \in Requests :
    /\ variant = "note"
    /\ r1 < r2 /\ r1 \notin req[r2].after
    /\ {r1, r2} \subseteq CreatesFor("b@nytromarketing.com")
    /\ Succeeded(req[r1]) /\ Succeeded(req[r2])
    /\ {Response(req[r1]).action, Response(req[r2]).action} = {"created", "found"}

\* the note call of the request was answered with a non-2xx status
NoteRefused(rq) ==
  \E i \in CallsOf(rq, "note") : rq.calls[i].answer = "status"

\* C12: a request whose contact resolution returned an id and whose note call
\* was answered non-2xx is answered once, with status 500, an error that
\* carries the status and the text of that answer and no contact id, note id
\* or action; the contact it resolved to is still held by the remote and no
\* note of the request exists.
C12_AttachFailure ==
  \A r \in Requests :
    NoteRefused(req[r])
    => /\ Resolved(req[r])
       /\ Answered(req[r])
       /\ Len(req[r].resp) = 1
       /\ Response(req[r]).status = 500
       /\ Response(req[r]).error = CatchLabel(req[r].ep)
       /\ Response(req[r]).msg = "Note creation failed"
       /\ \A i \in CallsOf(req[r], "note") :
            /\ Response(req[r]).dstatus = req[r].calls[i].status
            /\ req[r].calls[i].status >= 300
       /\ Response(req[r]).dtext # <<>>
       /\ Response(req[r]).contactId = NoId
       /\ Response(req[r]).noteId = NoId
       /\ Response(req[r]).action = "none"
       /\ \E i \in ContactsWith(req[r].email) : contacts[i].id = req[r].contactId
       /\ NotesBy(r) = {}

\* the note call failed for a contact the request itself had created
C12_Witness ==
  \E r \in Requests :
    /\ variant = "note"
    /\ NoteRefused(req[r])
    /\ req[r].action = "created"
    /\ \E i \in 1..Len(contacts) : contacts[i].id = req[r].contactId /\ ~contacts[i].old

\* the requests for email e that were answered with success
SucceededFor(e) == {r \in Requests : req[r].email = e /\ Succeeded(req[r])}

\* every note made so far is still there, as it was made
NotesKept ==
  /\ Len(notes') >= Len(notes)
  /\ \A i \in 1..Len(notes) : notes'[i] = notes[i]

\* each request of the note version answered with success has one note of its
\* own, with its text, on the contact of its email; n such requests for an
\* email have n notes
NotesAccumulate ==
  \A e \in Emails :
    variant = "note" =>
      /\ \A r \in SucceededFor(e) :
           /\ Cardinality(NotesBy(r)) = 1
           /\ \A i \in NotesBy(r) :
                /\ notes[i].contact = ContactOf(e).id
                /\ notes[i].body = NoteContent(req[r].notes)
                /\ notes[i].id = Response(req[r]).noteId
      /\ Cardinality({i \in 1..Len(notes) : notes[i].req \in SucceededFor(e)})
           = Cardinality(SucceededFor(e))
      /\ \A i \in 1..Len(notes), j \in 1..Len(notes) :
           i # j => notes[i].id # notes[j].id

\* C13: the n requests of the note version for one email that were answered
\* with success have left exactly n notes on the contact of the email, one per
\* request, each with the text of its request, also when the texts are equal;
\* no step of any request changes or removes a note made before.
C13_NotesAccumulate == []NotesAccumulate /\ [][NotesKept]_vars

\* two requests with the same email and the same text, each with its own note
C13_Witness ==
  \E r1 \in Requests, r2 \in Requests :
    /\ variant = "note"
    /\ r1 # r2
    /\ {r1, r2} \subseteq SucceededFor(req[r1].email)
    /\ req[r1].notes = req[r2].notes
    /\ NotesBy(r1) # {} /\ NotesBy(r2) # {} /\ NotesBy(r1) # NotesBy(r2)

\* C14: the text of every note call, and of the note it makes, is the notes of
\* the request body when they are not empty and the string
\* "Live December 11, 2025" when they are empty or absent.
C14_FallbackNoteText ==
  \A r \in Requests :
    LET sent == IF req[r].notes = "" THEN "Live December 11, 2025" ELSE req[r].notes IN
    /\ \A i \in CallsOf(req[r], "note") : req[r].calls[i].text = sent
    /\ \A i \in NotesBy(r) : notes[i].body = sent

\* a note with the fallback text and a note with the text of its request
C14_Witness ==
  \E r1 \in Requests, r2 \in Requests :
    /\ req[r1].notes = "" /\ req[r2].notes = "hello"
    /\ \E i \in NotesBy(r1) : notes[i].body = "Live December 11, 2025"
    /\ \E i \in NotesBy(r2) : notes[i].body = "hello"
    /\ req[r1].ep = "create" /\ req[r2].ep = "update"

\* the create calls of the request that made a contact
CreatedBy(rq) ==
  {i \in CallsOf(rq, "create") : rq.calls[i].answer \in {"ok", "thrown"}}

\* C15, as claimed: in every version an update-contact request makes no
\* contact, and one whose email (or contact id) no contact has is not answered
\* with success.
C15_UpdateOnlyExisting ==
  \A r \in Requests :
    req[r].ep = "update"
    => /\ CreatedBy(req[r]) = {}
       /\ (Answered(req[r]) /\ ~ByIdUpdate(req[r]) /\ ~HasEmail(req[r].email))
            => ~Succeeded(req[r])
       /\ (Answered(req[r]) /\ ByIdUpdate(req[r]) /\ req[r].contactId \notin ContactIds)
            => ~Succeeded(req[r])

\* the strings of a response body
BodyTexts(resp) ==
  {resp.error, resp.msg, resp.action}
    \cup {resp.dtext[i] : i \in 1..Len(resp.dtext)}
    \cup {resp.contactId[i] : i \in 1..Len(resp.contactId)}
    \cup {resp.noteId[i] : i \in 1..Len(resp.noteId)}

\* the strings of the body of a remote call
CallTexts(call) == {call.email, call.text} \cup {call.id[i] : i \in 1..Len(call.id)}

\* C16: the key is in the Authorization header of every remote call and in no
\* other part of a call, and in no response body: not in an error, its details
\* or the text of the remote they quote, not in a success, and not in the
\* answers of /api/config, /api/health and /api/debug.
C16_KeyConfidential ==
  \A r \in Requests :
    /\ \A i \in 1..Len(req[r].resp) : HUBSPOT_API_KEY \notin BodyTexts(req[r].resp[i])
    /\ \A i \in 1..Len(req[r].calls) :
         /\ req[r].calls[i].auth = <<"Bearer", HUBSPOT_API_KEY>>
         /\ HUBSPOT_API_KEY \notin CallTexts(req[r].calls[i])

\* the key is set, a health request is answered and an error quotes the remote
C16_Witness ==
  \E r \in Requests, q \in Requests :
    /\ keySet
    /\ req[r].ep \in {"health", "debug"} /\ Answered(req[r])
    /\ Answered(req[q]) /\ req[q].calls # <<>>
    /\ Response(req[q]).dtext # <<>>

\* the part of an email after the @
Domain(e) ==
  CASE e = "a@x.com" -> "x.com"
    [] e = "b@nytromarketing.com" -> "nytromarketing.com"
    [] OTHER -> ""

\* C17, as claimed: a request whose email is in the allowed domain issues no
\* remote call.
C17_AllowedDomainBypass ==
  \A r \in Requests :
    (req[r].pc # "idle" /\ Domain(req[r].email) = ALLOWED_DOMAIN)
    => req[r].calls = <<>>

\* r1 and r2 are create-contact requests of the note version for one email
\* that no contact had before; r2 arrived while r1 was in flight, and both
\* were answered with success
RacedAndSucceeded(r1, r2) ==
  /\ variant = "note"
  /\ r1 < r2 /\ r1 \notin req[r2].after
  /\ req[r1].ep = "create" /\ req[r2].ep = "create"
  /\ req[r1].email = req[r2].email
  /\ \A i \in ContactsWith(req[r1].email) : ~contacts[i].old
  /\ Succeeded(req[r1]) /\ Succeeded(req[r2])

\* C18: two concurrent create-contact requests for an email that had no
\* contact, both answered with success, have left two distinct notes on the
\* one contact of the email, and at most one of them created it; the state is
\* reachable (C18_Witness), with one request on the create path and the other
\* on the conflict path.
C18_DuplicateNotesUnderRace ==
  \A r1 \in Requests, r2 \in Requests :
    RacedAndSucceeded(r1, r2)
    => /\ Cardinality(ContactsWith(req[r1].email)) = 1
       /\ Cardinality(NotesBy(r1)) = 1 /\ Cardinality(NotesBy(r2)) = 1
       /\ NotesBy(r1) # NotesBy(r2)
       /\ \A i \in NotesBy(r1) \cup NotesBy(r2) :
            notes[i].contact = ContactOf(req[r1].email).id
       /\ \A i \in NotesBy(r1), j \in NotesBy(r2) : notes[i].id # notes[j].id
       /\ ~(req[r1].action = "created" /\ req[r2].action = "created")

C18_Witness ==
  \E r1 \in Requests, r2 \in Requests :
    /\ RacedAndSucceeded(r1, r2)
    /\ {req[r1].action, req[r2].action} = {"created", "found"}
    /\ \E i \in NotesBy(r1), j \in NotesBy(r2) :
         /\ i # j
         /\ notes[i].contact = notes[j].contact
         /\ notes[i].body = notes[j].body

\* the request was answered with an error after its last remote call was
\* answered with a non-2xx status
FailedOnLastCall(rq) ==
  /\ Answered(rq) /\ ~Succeeded(rq)
  /\ rq.calls # <<>>
  /\ rq.calls[Len(rq.calls)].answer = "status"

\* C19, as claimed: the details of the error response of a request whose
\* remote call failed hold the status of that call and the text of its
\* answer.
C19_FailureDiagnostics ==
  \A r \in Requests :
    FailedOnLastCall(req[r])
    => /\ Response(req[r]).dstatus = req[r].calls[Len(req[r].calls)].status
       /\ Response(req[r]).dtext # <<>>

\* C20: every note is associated with one contact the remote holds, the one
\* whose id the note call that made it carried; that call is the only note
\* call of its request and its last remote call, so no call comes after it to
\* associate the note.
C20_AssociationWithCreation ==
  \A i \in 1..Len(notes) :
    LET rq == req[notes[i].req] IN
    /\ notes[i].contact # NoId
    /\ Cardinality({c \in 1..Len(contacts) : contacts[c].id = notes[i].contact}) = 1
    /\ Cardinality(CallsOf(rq, "note")) = 1
    /\ \A j \in CallsOf(rq, "note") :
         /\ rq.calls[j].id = notes[i].contact
         /\ j = Len(rq.calls)
    /\ Cardinality(NotesBy(notes[i].req)) = 1

\* a note of a request whose answer was lost and a note of a request answered
\* with success
C20_Witness ==
  \E i \in 1..Len(notes), j \in 1..Len(notes) :
    /\ ~Succeeded(req[notes[i].req]) /\ Answered(req[notes[i].req])
    /\ Succeeded(req[notes[j].req])
    /\ notes[i].contact = notes[j].contact

\* the last remote call of the request was the note call, and fetch or
\* response.json() rejected on it
NoteAnswerLost(rq) ==
  /\ Len(rq.calls) > 0
  /\ rq.calls[Len(rq.calls)].kind = "note"
  /\ rq.calls[Len(rq.calls)].answer = "thrown"

\* C21, as claimed: an answered request has left a note if and only if its
\* response is a success; a request answered 500 has left no note.
C21_Original ==
  \A r \in Requests :
    Answered(req[r]) => (NotesBy(r) # {} <=> Succeeded(req[r]))

\* C21, amended: a request answered with success has left exactly one note,
\* the one whose id the response carries; a request not answered with success
\* has left no note, unless the remote accepted its note call and the answer
\* was lost or unreadable: then the response is a 500 and the one note stays.
C21_NoteIffSuccessOrLostAnswer ==
  \A r \in Requests :
    /\ Succeeded(req[r])
       => /\ Cardinality(NotesBy(r)) = 1
          /\ \A i \in NotesBy(r) : notes[i].id = Response(req[r]).noteId
    /\ ~Succeeded(req[r])
       => /\ NotesBy(r) # {} <=> NoteAnswerLost(req[r])
          /\ Cardinality(NotesBy(r)) <= 1
    /\ NoteAnswerLost(req[r])
       => /\ Answered(req[r])
          /\ Response(req[r]).status = 500
          /\ Response(req[r]).noteId = NoId

\* a request answered 500 that has left a note, and a request answered 500
\* after its note call was refused, which has left none
C21_Witness ==
  \E r1 \in Requests, r2 \in Requests :
    /\ Answered(req[r1]) /\ Response(req[r1]).status = 500
    /\ NotesBy(r1) # {}
    /\ Answered(req[r2]) /\ Response(req[r2]).status = 500
    /\ CallsOf(req[r2], "note") # {}
    /\ NotesBy(r2) = {}

\* C22: in the version that updates on a conflict, the PATCH of a
\* create-contact request answered 409 carries the properties of the rejected
\* create (the email and the text) in a body {properties: {...}}, the shape of
\* the PATCH of update-contact, not wrapped a second time.
C22_ConflictPatchPayload ==
  \A r \in Requests :
    (variant = "upsert" /\ req[r].ep = "create" /\ Conflicted(req[r]))
    => \A i \in CallsOf(req[r], "patch") :
         /\ req[r].calls[i].email = req[r].email
         /\ req[r].calls[i].text = TextProperty(req[r].notes)
         /\ ~req[r].calls[i].wrapped

\* C23: no request is sent two responses: a request has one response when its
\* handler has finished and none before, on the paths through
\* updateExistingContact and updateContactByEmail and on the error paths too.
C23_AtMostOneResponse ==
  \A r \in Requests :
    /\ Len(req[r].resp) <= 1
    /\ Answered(req[r]) <=> Len(req[r].resp) = 1

\* a create-contact request answered 409 that went through updateContactByEmail
\* and updateExistingContact, each with its own catch, and was answered with
\* the error of the PATCH
C23_Witness ==
  \E r \in Requests :
    /\ variant = "upsert"
    /\ req[r].ep = "create"
    /\ Kinds(req[r]) = <<"create", "search", "patch">>
    /\ Answered(req[r])
    /\ Response(req[r]).status = 500

\* the request has arrived at an endpoint under /api/hubspot
Received(rq) == rq.pc # "idle" /\ ContactApi(rq)

\* C24: when every remote call eventually settles, every request that has
\* arrived at create-contact, update-contact or search-contact is eventually
\* answered.
C24_EventuallyAnswered ==
  \A r \in FairRequests : Received(req[r]) ~> Answered(req[r])

\* a request answered after two remote calls, the second of them failed
C24_Witness ==
  \E r \in Requests :
    /\ Received(req[r]) /\ Answered(req[r])
    /\ Len(req[r].calls) = 2
    /\ req[r].calls[2].answer # "ok"
    /\ Len(req[r].resp) = 1

KeyNotConfigured(rq) ==
  /\ Answered(rq)
  /\ Response(rq).status = 500
  /\ Response(rq).error = "HubSpot API key not configured"

\* C25, as claimed: without a key, a request from whose body an email was
\* read is answered 500 "HubSpot API key not configured" and a request without
\* one 400, both with no remote call.
C25_Original ==
  \A r \in Requests :
    (~keySet /\ Received(req[r]))
    => /\ req[r].calls = <<>>
       /\ req[r].email # "" => KeyNotConfigured(req[r])
       /\ req[r].email = "" => Answered(req[r]) /\ Response(req[r]).status = 400

\* C25, amended: without a key no request issues a remote call and the remote
\* is left as it was.  Where the handler reads the email, a request with an
\* email is answered 500 "HubSpot API key not configured" and one without 400
\* "Email is required".  update-contact by contact id reads no email but the
\* contact id: with one the answer is the 500, without one 400 "Contact ID is
\* required".
C25_MissingKeyGate ==
  \A r \in Requests :
    (~keySet /\ Received(req[r]))
    => /\ req[r].calls = <<>>
       /\ Answered(req[r])
       /\ contacts = Preexisting(PreEmails, 0) /\ notes = <<>>
       /\ IF ByIdUpdate(req[r])
          THEN /\ req[r].contactId # NoId => KeyNotConfigured(req[r])
               /\ req[r].contactId = NoId =>
                    /\ Response(req[r]).status = 400
                    /\ Response(req[r]).error = "Contact ID is required"
          ELSE /\ req[r].email # "" => KeyNotConfigured(req[r])
               /\ req[r].email = "" =>
                    /\ Response(req[r]).status = 400
                    /\ Response(req[r]).error = "Email is required"

\* without a key: a request with an email answered with the 500 and a request
\* without one answered 400
C25_Witness ==
  \E r1 \in Requests, r2 \in Requests :
    /\ ~keySet
    /\ Received(req[r1]) /\ req[r1].email # "" /\ KeyNotConfigured(req[r1])
    /\ Received(req[r2]) /\ req[r2].email = "" /\ ~ByIdUpdate(req[r2])
    /\ Answered(req[r2]) /\ Response(req[r2]).status = 400

\* request r has issued one more remote call in this step, of this kind
Issues(r, kind) ==
  /\ Len(req'[r].calls) = Len(req[r].calls) + 1
  /\ req'[r].calls[Len(req'[r].calls)].kind = kind

ByIdValidated(rq) ==
  \A i \in CallsOf(rq, "patch") :
    /\ i = 2
    /\ rq.calls[1].kind = "get"
    /\ rq.calls[1].answer = "ok"
    /\ rq.calls[1].id = rq.calls[i].id
    /\ rq.calls[i].id = rq.contactId

ByIdRefused(rq) ==
  (Len(rq.calls) > 0 /\ rq.calls[1].answer = "status")
  => /\ Kinds(rq) = <<"get">>
     /\ Answered(rq)
     /\ Response(rq).status = 404

\* the GET of a request changes nothing in the remote, and a contact changes
\* only in a step that issues a PATCH to its id or a create
GetChangesNothing ==
  /\ \A r \in Requests : Issues(r, "get") => contacts' = contacts /\ notes' = notes
  /\ contacts' # contacts =>
       \E r \in Requests : Issues(r, "patch") \/ Issues(r, "create")

\* C26: an update-contact request by contact id issues its PATCH only after
\* its GET for that contact id was answered 2xx; when the GET is refused the
\* request is answered 404 without a PATCH, and it has changed no contact.
C26_ValidateBeforeUpdate ==
  /\ [](\A r \in Requests :
          ByIdUpdate(req[r]) => ByIdValidated(req[r]) /\ ByIdRefused(req[r]))
  /\ [][GetChangesNothing]_vars

\* one request refused by its GET, answered 404, and one that has sent its
\* PATCH after its GET
C26_Witness ==
  \E r1 \in Requests, r2 \in Requests :
    /\ ByIdUpdate(req[r1]) /\ ByIdUpdate(req[r2])
    /\ Kinds(req[r1]) = <<"get">> /\ Answered(req[r1])
    /\ Response(req[r1]).status = 404
    /\ Kinds(req[r2]) = <<"get", "patch">> /\ Succeeded(req[r2])

SearchRequest(rq) == variant = "byid" /\ rq.ep = "search"

\* a search-contact request that has passed the two checks issues one search
\* call, for its email, and no other call; an answer read from the remote is
\* answered with status 200 and the first result, or with no contact when
\* there is none
SearchAnswer(rq) ==
  /\ \A i \in 1..Len(rq.calls) :
       rq.calls[i].kind = "search" /\ rq.calls[i].email = rq.email
  /\ Len(rq.calls) <= 1
  /\ (Answered(rq) /\ rq.email # "" /\ keySet) => Len(rq.calls) = 1
  /\ rq.hits >= 0
     => /\ Succeeded(rq)
        /\ Response(rq).contactId =
             IF rq.hits > 0 THEN Matching(rq.email, 1)[1].id ELSE NoId
  /\ Succeeded(rq) => rq.hits >= 0

\* the step of a search-contact request leaves the remote as it is
SearchReadOnly ==
  \A r \in Requests :
    (SearchRequest(req'[r]) /\ req'[r] # req[r])
    => contacts' = contacts /\ notes' = notes

\* C27: search-contact issues exactly one search call and no other call,
\* leaves the contacts and the notes of the remote unchanged, and answers with
\* the first result, or with no contact and a success status when the search
\* has no result.
C27_SearchReadOnlyFirstMatch ==
  /\ [](\A r \in Requests : SearchRequest(req[r]) => SearchAnswer(req[r]))
  /\ [][SearchReadOnly]_vars

\* one search answered with the contact found, one with no contact and
\* status 200
C27_Witness ==
  \E r1 \in Requests, r2 \in Requests :
    /\ SearchRequest(req[r1]) /\ Succeeded(req[r1])
    /\ Response(req[r1]).contactId # NoId
    /\ SearchRequest(req[r2]) /\ Succeeded(req[r2])
    /\ req[r2].hits = 0
    /\ Response(req[r2]).contactId = NoId

=============================================================================
